---- MODULE Spec2Model ----
(***************************************************************************)
(* Model of the Secret Hitler session engine (src/src/game_state.rs) as a  *)
(* state machine: one action per public operation of GameState, each       *)
(* followed by the broadcast of the projected views that the connection    *)
(* handler performs after a successful operation (src/src/main.rs).        *)
(*                                                                         *)
(* Option<T> is modelled as a sequence of length at most one:              *)
(* None = <<>>, Some(x) = <<x>>.  A Vec is a sequence whose last element   *)
(* is the one push appends and pop removes.                                *)
(***************************************************************************)
EXTENDS Integers, Sequences, FiniteSets, TLC

\* ------------------------------------------------------------------ bounds
\* Number of presidencies (values of turn_counter) the main run plays.
MaxTurns == 5
\* Number of presidencies the long run plays.
DeepTurns == 6
\* Number of presidencies the large-table run plays.
LargeTurns == 2
\* Number of presidencies the run over the table sizes plays.
TableTurns == 1
\* Number of presidencies the late-game run plays.
LateTurns == 9
\* Number of presidencies the run over the power table plays.
PowerTurns == 6
\* Number of presidencies the run to the win thresholds plays.
WinTurns == 8
\* Number of outcomes the model draws from for each random shuffle.
NumShuffles == 1
\* Number of participants that disconnect, leave and reconnect.
MaxRoam == 1
\* Number of ids that act on the session without ever having joined it.
MaxStrangers == 1
\* Number of websocket connections made to the server.
MaxSockets == 7
\* Minutes the session run lets pass after an idle mark is set.
MaxClock == 10

\* ------------------------------------------------------- program constants
MinPlayers == 5
\* Minutes a session stays in the global map after its last player went.
IdleMinutes == 5
MaxPlayers == 10
NumLiberalCards == 6
NumFacistCards == 11
LiberalWin == 5
FacistWin == 6
VetoUnlock == 5
HandSize == 3
TrackerLimit == 3
SmallGame == 6
InvestigateTable == 7

\* ------------------------------------------------------------ data types
None == <<>>
Some(x) == <<x>>

PlayerType == {"Liberal", "Facist", "Hitler"}
CardColor == {"Facist", "Liberal"}
PresidentialPower == {"InvestigateLoyalty", "CallSpecialElection", "PolicyPeek", "Execution"}

Lobby == [type |-> "Lobby"]
Electing == [type |-> "Electing"]
Voting == [type |-> "Voting"]
PresidentSelect == [type |-> "PresidentSelect"]
ChancellorSelect == [type |-> "ChancellorSelect"]
Ended(w) == [type |-> "Ended", winner |-> w]
Power(p) == [type |-> "PresidentialPower", power |-> p]

\* The websocket connections made to the server.
Sockets == 1..MaxSockets

VARIABLES
    conn,             \* ConnectionState: id -> [connected, secret, tx]
    players,          \* HashMap<Uuid, PlayerState>: id -> [role, vote, dead]
    num_facists,
    liberal_policies,
    facist_policies,
    election_tracker,
    cards,            \* draw pile, top of the pile last
    discarded,        \* discard pile, most recent last
    turn_phase,
    turn_counter,
    turn_order,
    last_president,
    last_chancellor,
    president,
    chancellor,
    host,
    president_veto,
    chancellor_veto,
    investigated,     \* HashMap<Uuid, Vec<Uuid>>: investigator -> targets
    issued,           \* number of player ids generated so far
    elected,          \* history: <<president, chancellor>> of the last government whose vote passed
    rejections,       \* history: rejected elections since the last passed election or forced enactment
    timeout,          \* GameState.timeout: when the last connected player was seen to go
    now,              \* SystemTime::now(), in minutes
    sockets,          \* the websocket tasks: socket -> [open, current_player]
    reclaimed,        \* the sweep has removed the session from the global map
    ret               \* outcome of the last operation: "Ok", "Err", "Panic" ("Init" before any)

vars == <<conn, players, num_facists, liberal_policies, facist_policies,
          election_tracker, cards, discarded, turn_phase, turn_counter,
          turn_order, last_president, last_chancellor, president, chancellor,
          host, president_veto, chancellor_veto, investigated, issued, elected,
          rejections, timeout, now, sockets, reclaimed, ret>>

\* The session around the game: its idle mark, the clock, the sockets and
\* its place in the global map.
session == <<timeout, now, sockets, reclaimed>>

\* Everything of GameState that the game operations may touch.
game == <<players, num_facists, liberal_policies, facist_policies,
          election_tracker, cards, discarded, turn_phase, turn_counter,
          turn_order, last_president, last_chancellor, president, chancellor,
          host, president_veto, chancellor_veto, investigated>>

\* ------------------------------------------------------------- sequences
Last(s) == s[Len(s)]
Pop(s) == SubSeq(s, 1, Len(s) - 1)
Reverse(s) == [i \in 1..Len(s) |-> s[Len(s) + 1 - i]]
Repeat(x, n) == [i \in 1..n |-> x]
Range(s) == {s[i] : i \in 1..Len(s)}
Count(s, x) == Cardinality({i \in 1..Len(s) : s[i] = x})
\* Vec::remove(idx), 1-based
RemoveAt(s, idx) == SubSeq(s, 1, idx - 1) \o SubSeq(s, idx + 1, Len(s))
\* Iterator::position / rposition, 1-based; 0 when there is none
Position(s, x) == IF x \in Range(s) THEN CHOOSE i \in 1..Len(s) : s[i] = x /\ \A j \in 1..(i - 1) : s[j] # x ELSE 0
RPosition(s, x) == IF x \in Range(s) THEN CHOOSE i \in 1..Len(s) : s[i] = x /\ \A j \in (i + 1)..Len(s) : s[j] # x ELSE 0

\* The ids of a set in ascending order: one iteration order of a HashMap.
RECURSIVE SetToSeq(_)
SetToSeq(S) == IF S = {} THEN <<>> ELSE LET m == CHOOSE x \in S : \A y \in S : x <= y IN <<m>> \o SetToSeq(S \ {m})

\* DealIdx(n, k, 1): the positions 1, 1+k, 1+2k, ... then 2, 2+k, ... of 1..n
RECURSIVE DealIdx(_, _, _)
DealIdx(n, k, r) == IF r > k THEN <<>> ELSE [j \in 1..(IF r > n THEN 0 ELSE (n - r) \div k + 1) |-> r + (j - 1) * k] \o DealIdx(n, k, r + 1)
\* Deal(s, k): s dealt round the positions in that order, so that s[1], s[2], ...
\* land k places apart
Deal(s, k) == LET idx == DealIdx(Len(s), k, 1) IN [p \in 1..Len(s) |-> s[CHOOSE i \in 1..Len(s) : idx[i] = p]]
\* The m-th permutation of the bounded family a shuffle draws from:
\* dealt 2, 1 (unchanged), 3, 4, 5, ... apart.
Perm(s, m) == Deal(s, IF m = 1 THEN 2 ELSE IF m = 2 THEN 1 ELSE m)
\* slice::shuffle(&mut thread_rng()): some permutation of s.
Shuffles(s) == {Perm(s, m) : m \in 1..NumShuffles}

\* shuffle_deck(): 6 Liberal then 11 Facist cards, shuffled.
shuffle_deck == Shuffles(Repeat("Liberal", NumLiberalCards) \o Repeat("Facist", NumFacistCards))

\* ------------------------------------------------------------- the state
\* The GameState struct as a record, for the operations to transform.
S == [players |-> players, num_facists |-> num_facists,
      liberal_policies |-> liberal_policies, facist_policies |-> facist_policies,
      election_tracker |-> election_tracker, cards |-> cards, discarded |-> discarded,
      turn_phase |-> turn_phase, turn_counter |-> turn_counter, turn_order |-> turn_order,
      last_president |-> last_president, last_chancellor |-> last_chancellor,
      president |-> president, chancellor |-> chancellor, host |-> host,
      president_veto |-> president_veto, chancellor_veto |-> chancellor_veto,
      investigated |-> investigated]

\* A rejection that drops the veto consents on its way out.
Err_Dirty(s) ==
    [s |-> [s EXCEPT !.president_veto = FALSE, !.chancellor_veto = FALSE, !.election_tracker = 0],
     r |-> "Err"]

\* An operation's outcome: the state it leaves and what it returns.
Ok(s) == [s |-> s, r |-> "Ok"]
Err(s) == [s |-> s, r |-> "Err"]
Panic(s) == [s |-> s, r |-> "Panic"]

IsEnded(phase) == phase.type = "Ended"
IsPower(phase) == phase.type = "PresidentialPower"
TopCards(cs) == SubSeq(cs, Len(cs) - HandSize + 1, Len(cs))

\* HashMap insert / remove on a function
MapPut(f, k, v) == [x \in DOMAIN f \cup {k} |-> IF x = k THEN v ELSE f[x]]
MapDel(f, k) == [x \in DOMAIN f \ {k} |-> f[x]]

\* ------------------------------------------------- shared engine helpers
\* GameState::next_president
next_president(s) ==
    [s EXCEPT !.last_president = s.president,
              !.last_chancellor = s.chancellor,
              !.chancellor = None,
              !.turn_counter = s.turn_counter + 1,
              !.turn_phase = Electing,
              !.president = Some(s.turn_order[((s.turn_counter + 1) % Len(s.turn_order)) + 1])]

\* A reshuffle that drops the discard pile instead of returning it.
reshuffle_deck_Lossy(s) == {[s EXCEPT !.discarded = <<>>]}

\* GameState::reshuffle_deck: the states it may leave
reshuffle_deck(s) ==
    {[s EXCEPT !.cards = c, !.discarded = <<>>] : c \in Shuffles(s.cards \o s.discarded)}

\* A power table that lets the tables of 7 and 8 investigate after the first
\* Fascist policy, as the tables of 9 and 10 do.
PowerFor_EarlyInvestigation(n, f) ==
    IF n \in 5..6 /\ f = 3 THEN Some("PolicyPeek")
    ELSE IF n \in 7..10 /\ f \in 1..2 THEN Some("InvestigateLoyalty")
    ELSE IF n \in 7..10 /\ f = 3 THEN Some("CallSpecialElection")
    ELSE IF f \in 4..5 THEN Some("Execution")
    ELSE None

\* The (player count, facist policies) table of enact_policy
PowerFor(n, f) ==
    IF n \in 5..6 /\ f = 3 THEN Some("PolicyPeek")
    ELSE IF (n \in 9..10 /\ f \in 1..2) \/ (n \in 7..8 /\ f = 2) THEN Some("InvestigateLoyalty")
    ELSE IF n \in 7..10 /\ f = 3 THEN Some("CallSpecialElection")
    ELSE IF f \in 4..5 THEN Some("Execution")
    ELSE None

\* An enactment that never ends the game.
EnactOn_NoWin(t, card) ==
    next_president(IF card = "Facist"
                   THEN [t EXCEPT !.facist_policies = t.facist_policies + 1]
                   ELSE [t EXCEPT !.liberal_policies = t.liberal_policies + 1])

\* enact_policy after the reshuffle decision, on state t
EnactOn(t, card) ==
    IF card = "Facist"
    THEN LET u == [t EXCEPT !.facist_policies = t.facist_policies + 1] IN
         IF u.facist_policies >= FacistWin
         THEN [u EXCEPT !.turn_phase = Ended("Facist")]
         ELSE LET pw == PowerFor(Cardinality(DOMAIN u.players), u.facist_policies) IN
              IF pw # None THEN [u EXCEPT !.turn_phase = Power(pw[1])]
              ELSE next_president(u)
    ELSE LET u == [t EXCEPT !.liberal_policies = t.liberal_policies + 1] IN
         IF u.liberal_policies >= LiberalWin
         THEN [u EXCEPT !.turn_phase = Ended("Liberal")]
         ELSE next_president(u)

\* A reshuffle that waits for the draw pile to run out.
NeedsReshuffle_Empty(s) == s.cards = <<>>

\* The reshuffle test of enact_policy
NeedsReshuffle(s) == Len(s.cards) < HandSize

\* GameState::enact_policy: the states it may leave
enact_policy(s, card) ==
    {EnactOn(t, card) : t \in (IF NeedsReshuffle(s) THEN reshuffle_deck(s) ELSE {s})}

\* ------------------------------------------------------ game operations
\* Each operation maps the state and its arguments to the set of outcomes
\* it may have (more than one only where it shuffles).

\* A role table with one Fascist at every size.
FacistCount_Flat(n) == 1

\* The role count table of start
FacistCount(n) ==
    IF n \in 5..6 THEN 1
    ELSE IF n \in 7..8 THEN 2
    ELSE IF n \in 9..10 THEN 3
    ELSE IF n % 2 = 0 THEN (n - 1) \div 2 - 1
    ELSE n \div 2 - 1

\* A start that is let through again once the game has ended.
HasStarted_UntilEnded(s) == s.turn_phase # Lobby /\ ~IsEnded(s.turn_phase)

\* The phase test of start
HasStarted(s) == s.turn_phase # Lobby

\* A host test that lets every roster member through.
IsHost_Member(s, player) == player \in DOMAIN s.players

\* The host test of start
IsHost(s, player) == s.host = Some(player)

\* GameState::start
start(s, player) ==
    IF HasStarted(s) THEN {Err(s)}
    ELSE IF ~IsHost(s, player) THEN {Err(s)}
    ELSE IF Cardinality(DOMAIN s.players) < MinPlayers \/ Cardinality(DOMAIN s.players) > MaxPlayers THEN {Err(s)}
    ELSE LET n == Cardinality(DOMAIN s.players)
             nf == FacistCount(n)
             roles == Repeat("Liberal", n - nf - 1) \o Repeat("Facist", nf) \o <<"Hitler">>
             iter == SetToSeq(DOMAIN s.players)
             \* both shuffles draw from the one generator: the m-th outcome of each
             Outcome(m) ==
                 LET r == Perm(roles, m)
                     to == Perm(iter, m)
                 IN  Ok([s EXCEPT !.num_facists = nf,
                                  !.players = [p \in DOMAIN s.players |->
                                                  [s.players[p] EXCEPT !.role = r[Position(iter, p)]]],
                                  !.president = Some(to[1]),
                                  !.turn_order = to,
                                  !.turn_phase = Electing])
         IN  {Outcome(m) : m \in 1..NumShuffles}

\* A term limit that remembers the chancellor only.
TermLimited_ChancellorOnly(s, target) == Some(target) = s.last_chancellor

\* The term-limit test of choose_chancellor
TermLimited(s, target) ==
    Some(target) = s.last_chancellor \/ Some(target) = s.last_president

\* A self-nomination that is let through.
NamesSelf_Allowed(player, target_player) == FALSE

\* choose_chancellor: the president names itself.
NamesSelf(player, target_player) == player = target_player

\* GameState::choose_chancellor
choose_chancellor(s, player, target_player) ==
    IF s.turn_phase # Electing THEN {Err(s)}
    ELSE IF Some(player) # s.president THEN {Err(s)}
    ELSE IF NamesSelf(player, target_player) THEN {Err(s)}
    ELSE IF TermLimited(s, target_player) THEN {Err(s)}
    ELSE IF target_player \notin DOMAIN s.players THEN {Err(s)}
    ELSE IF s.players[target_player].dead THEN {Err(s)}
    ELSE {Ok([s EXCEPT !.turn_phase = Voting,
                       !.chancellor = Some(target_player),
                       !.players = [p \in DOMAIN s.players |-> [s.players[p] EXCEPT !.vote = None]]])}

\* A tracker limit reached one rejection late.
TrackerFull_Late(n) == n > TrackerLimit

\* The tracker test of vote_chancellor and veto
TrackerFull(n) == n >= TrackerLimit

\* The tally of vote_chancellor: every player record whose vote is not
\* Some(true) counts against.
NumFor(ps) == Cardinality({p \in DOMAIN ps : ps[p].vote = Some(TRUE)})
NumAgainst(ps) == Cardinality({p \in DOMAIN ps : ps[p].vote # Some(TRUE)})
AllVoted(ps) == \A p \in DOMAIN ps : ps[p].dead \/ ps[p].vote # None

\* The Hitler-elected test of vote_chancellor
HitlerElected(s) ==
    s.players[s.chancellor[1]].role = "Hitler" /\ s.facist_policies > 3

\* GameState::vote_chancellor
vote_chancellor(s, player, vote) ==
    IF s.turn_phase # Voting THEN {Err(s)}
    ELSE IF player \notin DOMAIN s.players THEN {Err(s)}
    ELSE IF s.players[player].dead THEN {Err(s)}
    ELSE LET t == [s EXCEPT !.players[player].vote = Some(vote)] IN
         IF ~AllVoted(t.players) THEN {Ok(t)}
         ELSE IF NumFor(t.players) > NumAgainst(t.players)
         THEN IF t.chancellor = None \/ t.chancellor[1] \notin DOMAIN t.players THEN {Panic(t)}
              ELSE IF HitlerElected(t) THEN {Ok([t EXCEPT !.turn_phase = Ended("Facist")])}
              ELSE {Ok([t EXCEPT !.turn_phase = PresidentSelect, !.election_tracker = 0])}
         ELSE LET u == [t EXCEPT !.chancellor = None, !.election_tracker = t.election_tracker + 1] IN
              IF TrackerFull(u.election_tracker)
              THEN IF u.cards = <<>> THEN {Panic([u EXCEPT !.election_tracker = 0])}
                   ELSE {Ok(x) : x \in enact_policy([u EXCEPT !.election_tracker = 0, !.cards = Pop(u.cards)], Last(u.cards))}
              ELSE {Ok(next_president(u))}

\* matches!(c, _color) in pick_card: `_color` is a fresh binding, so the
\* pattern matches every card.
MatchesColor(c, color) == TRUE

\* GameState::pick_card
pick_card(s, player, color) ==
    IF s.turn_phase = PresidentSelect
    THEN IF Some(player) # s.president THEN {Err(s)}
         ELSE IF Len(s.cards) < HandSize THEN {Panic(s)}
         ELSE IF \E i \in 1..HandSize : MatchesColor(TopCards(s.cards)[i], color)
         THEN {Ok([s EXCEPT !.discarded = Append(s.discarded, color),
                            !.president_veto = FALSE,
                            !.chancellor_veto = FALSE,
                            !.turn_phase = ChancellorSelect])}
         ELSE {Err(s)}
    ELSE IF s.turn_phase = ChancellorSelect
    THEN IF Some(player) # s.chancellor THEN {Err(s)}
         ELSE IF Len(s.cards) < HandSize THEN {Panic(s)}
         ELSE IF s.discarded # <<>> /\ Position(TopCards(s.cards), Last(s.discarded)) = 0 THEN {Panic(s)}
         ELSE LET top == TopCards(s.cards)
                  choices == IF s.discarded # <<>> THEN RemoveAt(top, Position(top, Last(s.discarded))) ELSE top
              IN  IF Position(choices, color) # 0
                  THEN LET rest == RemoveAt(choices, Position(choices, color))
                           t == [s EXCEPT !.cards = SubSeq(s.cards, 1, Len(s.cards) - HandSize),
                                          !.discarded = Append(s.discarded, Last(rest))]
                       IN  {Ok(x) : x \in enact_policy(t, color)}
                  ELSE {Err(s)}
    ELSE {Err(s)}

\* The cards veto moves when the tracker overflows: the president's
\* set-aside copy is dropped, up to 3 cards go from draw pile to discard pile.
VetoDiscard(s) ==
    LET k == IF Len(s.cards) < HandSize THEN Len(s.cards) ELSE HandSize IN
    [s EXCEPT !.discarded = Pop(s.discarded) \o Reverse(SubSeq(s.cards, Len(s.cards) - k + 1, Len(s.cards))),
              !.cards = SubSeq(s.cards, 1, Len(s.cards) - k)]

\* A veto power that is unlocked from the first policy on.
VetoLocked_Never(s) == FALSE

\* veto: fewer than 5 fascist policies have been passed.
VetoLocked(s) == s.facist_policies < VetoUnlock

\* GameState::veto
veto(s, player) ==
    IF s.turn_phase # ChancellorSelect THEN {Err(s)}
    ELSE IF VetoLocked(s) THEN {Err(s)}
    ELSE IF Some(player) # s.chancellor /\ Some(player) # s.president THEN {Err(s)}
    ELSE LET t == IF Some(player) = s.chancellor
                  THEN [s EXCEPT !.chancellor_veto = TRUE]
                  ELSE [s EXCEPT !.president_veto = TRUE]
         IN  IF ~(t.president_veto /\ t.chancellor_veto) THEN {Ok(t)}
             ELSE LET u == [t EXCEPT !.election_tracker = t.election_tracker + 1] IN
                  IF TrackerFull(u.election_tracker)
                  THEN LET v == VetoDiscard([u EXCEPT !.election_tracker = 0]) IN
                       IF v.cards # <<>>
                       THEN {Ok(x) : x \in enact_policy([v EXCEPT !.cards = Pop(v.cards)], Last(v.cards))}
                       ELSE UNION {IF w.cards = <<>> THEN {Panic(w)}
                                   ELSE {Ok(x) : x \in enact_policy([w EXCEPT !.cards = Pop(w.cards)], Last(w.cards))}
                                   : w \in reshuffle_deck(v)}
                  ELSE {Ok(next_president(u))}

\* An execution that leaves the dead player in the turn order.
Executed_KeepsSeat(s, target) == [s EXCEPT !.players[target].dead = TRUE]

\* The Execution arm's marking: the target is dead and out of the turn order
Executed(s, target) ==
    LET idx == Position(s.turn_order, target) IN
    [s EXCEPT !.players[target].dead = TRUE,
              !.turn_order = IF idx # 0 THEN RemoveAt(s.turn_order, idx) ELSE s.turn_order]

\* GameState::execute_presidential_power; target is an Option
execute_presidential_power(s, player, target) ==
    IF Some(player) # s.president THEN {Err(s)}
    ELSE IF ~IsPower(s.turn_phase) THEN {Err(s)}
    ELSE IF s.turn_phase.power = "InvestigateLoyalty"
    THEN IF target = None THEN {Err(s)}
         ELSE IF target[1] \notin DOMAIN s.players THEN {Err(s)}
         ELSE IF target[1] = player THEN {Err(s)}
         ELSE LET old == IF player \in DOMAIN s.investigated THEN s.investigated[player] ELSE <<>> IN
              {Ok(next_president([s EXCEPT !.investigated = MapPut(s.investigated, player, Append(old, target[1]))]))}
    ELSE IF s.turn_phase.power = "CallSpecialElection"
    THEN IF target = Some(player) THEN {Err(s)}
         ELSE IF target = None THEN {Err(s)}
         ELSE IF target[1] \notin DOMAIN s.players THEN {Err(s)}
         ELSE IF s.players[target[1]].dead THEN {Err(s)}
         ELSE {Ok([s EXCEPT !.last_president = s.president,
                            !.last_chancellor = s.chancellor,
                            !.chancellor = None,
                            !.president = target,
                            !.turn_phase = Electing])}
    ELSE IF s.turn_phase.power = "Execution"
    THEN IF target = Some(player) THEN {Err(s)}
         ELSE IF target = None THEN {Err(s)}
         ELSE IF target[1] \notin DOMAIN s.players THEN {Err(s)}
         ELSE IF s.players[target[1]].dead THEN {Err(s)}
         ELSE LET t == Executed(s, target[1])
              IN  IF s.players[target[1]].role = "Hitler"
                  THEN {Ok([t EXCEPT !.turn_phase = Ended("Liberal")])}
                  ELSE {Ok(next_president(t))}
    ELSE {Ok(next_president(s))}

\* ---------------------------------------------------- roster operations
NewPlayerState == [role |-> "Liberal", vote |-> None, dead |-> FALSE]
\* PlayerConnection::new(ptx), and the secret the handler then sets on it
NewConnection(ptx) == [connected |-> TRUE, secret |-> <<>>, tx |-> ptx]
WithSecret(player_connection, secret) == [player_connection EXCEPT !.secret = secret]

\* GameState::add_player: <<state, connections, returned bool>>
add_player(s, c, player_id, player_connection) ==
    IF s.turn_phase # Lobby /\ player_id \notin DOMAIN c THEN <<s, c, FALSE>>
    ELSE LET c1 == MapPut(c, player_id, player_connection)
             s1 == IF player_id \notin DOMAIN s.players
                   THEN [s EXCEPT !.players = MapPut(s.players, player_id, NewPlayerState)]
                   ELSE s
             s2 == IF s1.host = None THEN [s1 EXCEPT !.host = Some(player_id)] ELSE s1
         IN  <<s2, c1, TRUE>>

\* self.players.keys().next(): any key of the map, None when it is empty
NextKey(ps) == IF DOMAIN ps = {} THEN {None} ELSE {Some(k) : k \in DOMAIN ps}

\* GameState::remove_player: the set of <<state, connections, returned bool>>
remove_player(s, c, player) ==
    IF s.turn_phase = Lobby
    THEN LET ps == MapDel(s.players, player) IN
         {<<[s EXCEPT !.players = ps, !.host = h], c, TRUE>>
             : h \in (IF s.host = Some(player) THEN NextKey(ps) ELSE {s.host})}
    ELSE IF player \in DOMAIN c
    THEN {<<s, [c EXCEPT ![player].connected = FALSE], FALSE>>}
    ELSE {<<s, c, FALSE>>}

\* GameState::delete_player: the set of <<state, connections, returned bool>>
delete_player(s, c, player) ==
    IF s.turn_phase = Lobby
    THEN LET ps == MapDel(s.players, player) IN
         {<<[s EXCEPT !.players = ps, !.host = h], MapDel(c, player), TRUE>>
             : h \in (IF s.host = Some(player) THEN NextKey(ps) ELSE {s.host})}
    ELSE {<<s, c, FALSE>>}

\* ------------------------------------------------------ view projection
\* The failed unwraps and out-of-range slices of GameStatePlayerView::serialize
ViewPanics(s, c, o) ==
    \/ o \notin DOMAIN s.players
    \/ \E k \in DOMAIN s.players : k \notin DOMAIN c
    \/ /\ s.turn_phase \in {PresidentSelect, Power("PolicyPeek")}
       /\ Some(o) = s.president
       /\ Len(s.cards) < HandSize
    \/ /\ s.turn_phase = ChancellorSelect
       /\ Some(o) = s.chancellor
       /\ \/ Len(s.cards) < HandSize
          \/ s.discarded = <<>>
          \/ RPosition(TopCards(s.cards), Last(s.discarded)) = 0

\* A view that hides no role.
ViewRole_NoHide(s, o, k) == Some(s.players[k].role)

\* A view that shows an investigated player's role as it is.
ViewRole_Raw(s, o, k) ==
    IF \/ IsEnded(s.turn_phase)
       \/ o = k
       \/ s.players[o].role = "Facist"
       \/ (s.players[o].role = "Hitler" /\ Cardinality(DOMAIN s.players) <= SmallGame)
    THEN Some(s.players[k].role)
    ELSE IF o \in DOMAIN s.investigated /\ k \in Range(s.investigated[o])
    THEN Some(s.players[k].role)
    ELSE None

\* The role entry of player k in the view of observer o
ViewRole(s, o, k) ==
    IF \/ IsEnded(s.turn_phase)
       \/ o = k
       \/ s.players[o].role = "Facist"
       \/ (s.players[o].role = "Hitler" /\ Cardinality(DOMAIN s.players) <= SmallGame)
    THEN Some(s.players[k].role)
    ELSE IF o \in DOMAIN s.investigated /\ k \in Range(s.investigated[o])
    THEN Some(IF s.players[k].role = "Liberal" THEN "Liberal" ELSE "Facist")
    ELSE None

\* A view that hides no vote.
ViewVote_Open(s, o, k) == s.players[k].vote

\* The vote entry of player k in the view of observer o
ViewVote(s, o, k) ==
    IF s.turn_phase = Voting /\ o # k THEN None ELSE s.players[k].vote

\* A view that shows the drawn cards to every observer.
ViewCards_All(s, o) ==
    IF s.turn_phase \in {PresidentSelect, Power("PolicyPeek")}
    THEN Some(TopCards(s.cards))
    ELSE IF s.turn_phase = ChancellorSelect /\ Some(o) = s.chancellor
    THEN Some(RemoveAt(TopCards(s.cards), RPosition(TopCards(s.cards), Last(s.discarded))))
    ELSE None

\* The "cards" entry of the view of observer o (None when the key is absent)
ViewCards(s, o) ==
    IF s.turn_phase \in {PresidentSelect, Power("PolicyPeek")} /\ Some(o) = s.president
    THEN Some(TopCards(s.cards))
    ELSE IF s.turn_phase = ChancellorSelect /\ Some(o) = s.chancellor
    THEN Some(RemoveAt(TopCards(s.cards), RPosition(TopCards(s.cards), Last(s.discarded))))
    ELSE None

\* GameStatePlayerView::serialize, for an observer whose view does not panic
View(s, o) ==
    [liberal_policies |-> s.liberal_policies,
     facist_policies |-> s.facist_policies,
     election_tracker |-> s.election_tracker,
     liberal_cards |-> Count(s.cards, "Liberal"),
     facist_cards |-> Count(s.cards, "Facist"),
     host |-> s.host,
     president |-> s.president,
     last_president |-> s.last_president,
     chancellor |-> s.chancellor,
     last_chancellor |-> s.last_chancellor,
     turn_phase |-> s.turn_phase,
     turn_order |-> s.turn_order,
     cards_in_deck |-> Len(s.cards),
     cards_in_discard |-> Len(s.discarded),
     num_facists |-> s.num_facists,
     players |-> [k \in DOMAIN s.players |->
                    [role |-> ViewRole(s, o, k), vote |-> ViewVote(s, o, k), dead |-> s.players[k].dead]],
     votes |-> IF s.turn_phase = Voting
               THEN Some(Cardinality({k \in DOMAIN s.players : s.players[k].vote # None}))
               ELSE None,
     cards |-> ViewCards(s, o)]

\* GameState::broadcast_game_state: serializes the view of every player that
\* has a connection record
BroadcastPanics(s, c) == \E o \in DOMAIN s.players \cap DOMAIN c : ViewPanics(s, c, o)

\* GameState::broadcast_game_state, by what reaches the transport: the
\* players whose view has been sent. The keys of the player map come in no
\* fixed order, so a view that panics ends the broadcast after any of the
\* other views.
Delivered(s, c) ==
    LET to == DOMAIN s.players \cap DOMAIN c
        bad == {o \in to : ViewPanics(s, c, o)}
    IN  IF bad = {} THEN {to} ELSE SUBSET (to \ bad)

\* game_state_wrapper's match on the operation's result: the views and the
\* alerts handed to the transport, by recipient. The Err arm unwraps the
\* actor's connection record.
Outbox(out, c, player_id) ==
    IF out.r = "Ok"
    THEN {[views |-> d, alerts |-> {}] : d \in Delivered(out.s, c)}
    ELSE IF out.r = "Err" /\ player_id \in DOMAIN c
    THEN {[views |-> {}, alerts |-> {player_id}]}
    ELSE {[views |-> {}, alerts |-> {}]}

\* The game actions a participant can send: each goes through
\* game_state_wrapper with the participant as the actor.
Dispatch(s, pid) ==
    UNION {start(s, pid), veto(s, pid)}
        \cup UNION {choose_chancellor(s, pid, player) : player \in DOMAIN s.players}
        \cup UNION {vote_chancellor(s, pid, vote) : vote \in BOOLEAN}
        \cup UNION {pick_card(s, pid, color) : color \in CardColor}
        \cup UNION {execute_presidential_power(s, pid, Some(player)) : player \in DOMAIN s.players}

\* ------------------------------------------------------------- actions
Init ==
    /\ conn = <<>>
    /\ players = <<>>
    /\ num_facists = 0
    /\ liberal_policies = 0
    /\ facist_policies = 0
    /\ election_tracker = 0
    /\ host = None
    /\ president = None
    /\ chancellor = None
    /\ last_president = None
    /\ last_chancellor = None
    /\ turn_order = <<>>
    /\ cards \in shuffle_deck
    /\ discarded = <<>>
    /\ turn_counter = 0
    /\ turn_phase = Lobby
    /\ president_veto = FALSE
    /\ chancellor_veto = FALSE
    /\ investigated = <<>>
    /\ issued = 0
    /\ elected = None
    /\ rejections = 0
    /\ timeout = None
    /\ now = 0
    /\ sockets = [k \in Sockets |-> [open |-> TRUE, current_player |-> None]]
    /\ reclaimed = FALSE
    /\ ret = "Init"

\* Install the state an operation left.
SetState(s) ==
    /\ players' = s.players
    /\ num_facists' = s.num_facists
    /\ liberal_policies' = s.liberal_policies
    /\ facist_policies' = s.facist_policies
    /\ election_tracker' = s.election_tracker
    /\ cards' = s.cards
    /\ discarded' = s.discarded
    /\ turn_phase' = s.turn_phase
    /\ turn_counter' = s.turn_counter
    /\ turn_order' = s.turn_order
    /\ last_president' = s.last_president
    /\ last_chancellor' = s.last_chancellor
    /\ president' = s.president
    /\ chancellor' = s.chancellor
    /\ host' = s.host
    /\ president_veto' = s.president_veto
    /\ chancellor_veto' = s.chancellor_veto
    /\ investigated' = s.investigated

\* game_state_wrapper: the operation, then on Ok the broadcast of the views
\* (whose serialization may panic), on Err an Alert to the actor.
Wrapped(out) ==
    /\ SetState(out.s)
    /\ ret' = IF out.r = "Ok" /\ BroadcastPanics(out.s, conn) THEN "Panic" ELSE out.r
    /\ UNCHANGED <<conn, issued, session>>

\* A panic poisons the session's lock: no handler runs on it afterwards.
Alive == ret # "Panic"

Start(p) ==
    /\ Alive
    /\ \E out \in start(S, p) : Wrapped(out)
    /\ UNCHANGED <<elected, rejections>>

ChooseChancellor(p, target) ==
    /\ Alive
    /\ \E out \in choose_chancellor(S, p, target) : Wrapped(out)
    /\ UNCHANGED <<elected, rejections>>

VoteChancellor(p, vote) ==
    /\ Alive
    /\ \E out \in vote_chancellor(S, p, vote) :
          /\ Wrapped(out)
          /\ elected' = IF turn_phase = Voting /\ out.s.turn_phase \in {PresidentSelect, Ended("Facist")}
                        THEN Some(<<president[1], chancellor[1]>>)
                        ELSE elected
          /\ rejections' = IF turn_phase # Voting \/ out.s.turn_phase = Voting THEN rejections
                           ELSE IF out.s.turn_phase \in {PresidentSelect, Ended("Facist")} THEN 0
                           ELSE IF rejections + 1 >= TrackerLimit THEN 0
                           ELSE rejections + 1

PickCard(p, color) ==
    /\ Alive
    /\ \E out \in pick_card(S, p, color) : Wrapped(out)
    /\ UNCHANGED <<elected, rejections>>

Veto(p) ==
    /\ Alive
    /\ \E out \in veto(S, p) : Wrapped(out)
    /\ UNCHANGED <<elected, rejections>>

ExecutePower(p, target) ==
    /\ Alive
    /\ \E out \in execute_presidential_power(S, p, target) : Wrapped(out)
    /\ UNCHANGED <<elected, rejections>>

\* JoinGame: add_player, then the broadcast when it returned true
AddPlayer(p) ==
    /\ Alive
    /\ LET out == add_player(S, conn, p, WithSecret(NewConnection(p), <<p>>)) IN
          /\ SetState(out[1])
          /\ conn' = out[2]
          /\ ret' = IF ~out[3] THEN "Err"
                    ELSE IF BroadcastPanics(out[1], out[2]) THEN "Panic" ELSE "Ok"
    /\ issued' = IF p > issued THEN p ELSE issued
    /\ UNCHANGED <<elected, rejections, session>>

\* Disconnect: remove_player, then the broadcast
RemovePlayer(p) ==
    /\ Alive
    /\ \E out \in remove_player(S, conn, p) :
          /\ SetState(out[1])
          /\ conn' = out[2]
          /\ ret' = IF BroadcastPanics(out[1], out[2]) THEN "Panic" ELSE "Ok"
    /\ UNCHANGED <<issued, elected, rejections, session>>

\* Leave: delete_player, then the broadcast
DeletePlayer(p) ==
    /\ Alive
    /\ \E out \in delete_player(S, conn, p) :
          /\ SetState(out[1])
          /\ conn' = out[2]
          /\ ret' = IF BroadcastPanics(out[1], out[2]) THEN "Panic" ELSE "Ok"
    /\ UNCHANGED <<issued, elected, rejections, session>>

\* ---------------------------------------------------- session handlers
\* GameState::get_player_secret
get_player_secret(c, player_id) == IF player_id \in DOMAIN c THEN c[player_id].secret ELSE None

\* GameState::has_connected_players
has_connected_players(s, c) ==
    IF s.turn_phase = Lobby THEN DOMAIN s.players # {}
    ELSE \E p \in DOMAIN c : c[p].connected

\* state.get(&game_uuid): the session is in the global map from HostGame
\* until the sweep removes it.
InMap == issued > 0 /\ ~reclaimed

\* current_game and current_player of a socket are set and cleared
\* together; on this one session current_player stands for both.
Attach(k, player) == sockets' = [sockets EXCEPT ![k].current_player = player]

\* HostGame: a new session with the caller as its first player
HostGame(k) ==
    /\ Alive
    /\ sockets[k].open
    /\ issued = 0
    /\ LET player_uuid == issued + 1
           out == add_player(S, conn, player_uuid, WithSecret(NewConnection(k), Some(player_uuid)))
       IN  /\ SetState(out[1])
           /\ conn' = out[2]
           /\ issued' = player_uuid
           /\ Attach(k, Some(player_uuid))
           /\ ret' = IF ViewPanics(out[1], out[2], player_uuid) THEN "Panic" ELSE "Ok"
    /\ UNCHANGED <<timeout, now, reclaimed, elected, rejections>>

\* JoinGame { id, nickname, player_id, player_secret }
JoinGame(k, player_id, player_secret) ==
    /\ Alive
    /\ sockets[k].open
    /\ IF ~InMap
       THEN /\ ret' = "NoGame"
            /\ UNCHANGED <<game, conn, issued, session>>
       ELSE IF player_id # None
       THEN LET old_player_id == player_id[1]
                real_player_secret == get_player_secret(conn, old_player_id)
            IN  /\ timeout' = None
                /\ UNCHANGED <<issued, now, reclaimed>>
                /\ IF real_player_secret = None
                   THEN /\ ret' = "NoPlayer"
                        /\ UNCHANGED <<game, conn, sockets>>
                   ELSE IF real_player_secret # player_secret
                   THEN /\ ret' = "BadSecret"
                        /\ UNCHANGED <<game, conn, sockets>>
                   ELSE LET out == add_player(S, conn, old_player_id,
                                              WithSecret(NewConnection(k), player_secret))
                        IN  /\ Attach(k, Some(old_player_id))
                            /\ SetState(out[1])
                            /\ conn' = out[2]
                            /\ ret' = IF ~out[3] THEN "Started"
                                      ELSE IF BroadcastPanics(out[1], out[2]) THEN "Panic"
                                      ELSE "Ok"
       ELSE LET new_player_id == issued + 1
                secret == IF player_secret = None THEN Some(new_player_id) ELSE player_secret
                out == add_player(S, conn, new_player_id, WithSecret(NewConnection(k), secret))
            IN  /\ issued' = new_player_id
                /\ SetState(out[1])
                /\ conn' = out[2]
                /\ IF out[3]
                   THEN /\ Attach(k, Some(new_player_id))
                        /\ ret' = IF BroadcastPanics(out[1], out[2]) THEN "Panic" ELSE "Ok"
                   ELSE /\ ret' = "Started"
                        /\ UNCHANGED sockets
                /\ UNCHANGED <<timeout, now, reclaimed>>
    /\ UNCHANGED <<elected, rejections>>

\* StartGame, through game_state_wrapper: nothing happens on a socket
\* without a player or a session that is gone.
StartGame(k) ==
    /\ sockets[k].open
    /\ sockets[k].current_player # None
    /\ InMap
    /\ Start(sockets[k].current_player[1])

\* Leave: delete_player, the broadcast, and the socket forgets its player
Leave(k) ==
    /\ Alive
    /\ sockets[k].open
    /\ sockets[k].current_player # None
    /\ InMap
    /\ \E out \in delete_player(S, conn, sockets[k].current_player[1]) :
          /\ SetState(out[1])
          /\ conn' = out[2]
          /\ ret' = IF BroadcastPanics(out[1], out[2]) THEN "Panic" ELSE "Ok"
    /\ Attach(k, None)
    /\ UNCHANGED <<issued, timeout, now, reclaimed, elected, rejections>>

\* The socket closes: remove_player, the broadcast, and the idle mark when
\* no connected player is left.
Disconnect(k) ==
    /\ Alive
    /\ sockets[k].open
    /\ sockets' = [sockets EXCEPT ![k].open = FALSE]
    /\ IF sockets[k].current_player # None /\ InMap
       THEN \E out \in remove_player(S, conn, sockets[k].current_player[1]) :
               LET panics == BroadcastPanics(out[1], out[2])
                   remove_game == ~has_connected_players(out[1], out[2])
               IN  /\ SetState(out[1])
                   /\ conn' = out[2]
                   /\ ret' = IF panics THEN "Panic" ELSE "Ok"
                   /\ timeout' = IF ~panics /\ remove_game THEN Some(now) ELSE timeout
       ELSE /\ ret' = "Ok"
            /\ UNCHANGED <<game, conn, timeout>>
    /\ UNCHANGED <<issued, now, reclaimed, elected, rejections>>

\* cleanup_global_state, run on every new websocket and every five minutes:
\* whether the session is dropped from the global map
Stale(t, c) ==
    /\ t # None
    /\ t[1] < now - IdleMinutes
    /\ ~\E p \in DOMAIN c : c[p].connected

cleanup_global_state ==
    /\ Alive
    /\ InMap
    /\ reclaimed' = Stale(timeout, conn)
    /\ ret' = "Swept"
    /\ UNCHANGED <<game, conn, issued, timeout, now, sockets, elected, rejections>>

\* Time passes, while the session carries an idle mark.
Tick(d) ==
    /\ timeout # None
    /\ now + d <= timeout[1] + MaxClock
    /\ now' = now + d
    /\ ret' = "Tick"
    /\ UNCHANGED <<game, conn, issued, timeout, sockets, reclaimed, elected, rejections>>

\* ---------------------------------------------- inputs and specifications
\* A new participant gets a fresh id (Uuid::new_v4), until the table is full.
FreshId(p, seats) == p = issued + 1 /\ p <= seats
\* The host starts the game once the table is full (attempts on a table that
\* is too small are made at any time).
TableReady(seats) == issued = seats \/ Cardinality(DOMAIN players) < MinPlayers
\* The ballots are cast in seat order, and once a No has been cast no Yes
\* follows: every split of Yes and No counts is still produced.
VoteTurn(p, vote) ==
    IF p \notin DOMAIN players THEN TRUE
    ELSE IF players[p].dead THEN TRUE
    ELSE /\ players[p].vote = None
         /\ \A q \in DOMAIN players : q < p => (players[q].dead \/ players[q].vote # None)
         /\ vote => \A q \in DOMAIN players : players[q].vote # Some(FALSE)
\* Participants come and go only at a full table: in the lobby the one that
\* joined last, once the game is over the MaxRoam that joined last.
Roams(p, seats) ==
    /\ issued = seats
    /\ \/ turn_phase = Lobby /\ p = issued
       \/ IsEnded(turn_phase) /\ p > issued - MaxRoam

\* The president names any id; choose_chancellor and
\* execute_presidential_power turn every other actor away before they read
\* the target, so every other actor names itself.
Nominees(p, ids) == IF Some(p) = president THEN ids ELSE {p}
Targets(p, ids) == IF Some(p) = president THEN {None} \cup {Some(q) : q \in ids} ELSE {Some(p)}
\* The ids that act: those of the table and the strangers.
Actors(seats) == 1..(seats + MaxStrangers)

\* Nominations are made for maxTurns presidencies, and until a president has
\* investigated a player.
Sitting(maxTurns) == turn_counter < maxTurns /\ investigated = <<>>

\* Every handler, for a table of `seats` participants played for maxTurns
\* presidencies.
NextOver(seats, maxTurns) ==
    \/ \E p \in Actors(seats) : FreshId(p, seats) /\ AddPlayer(p)
    \/ \E p \in DOMAIN conn : Roams(p, seats) /\ AddPlayer(p)
    \/ \E p \in DOMAIN conn : Roams(p, seats) /\ RemovePlayer(p)
    \/ \E p \in DOMAIN conn : Roams(p, seats) /\ DeletePlayer(p)
    \/ \E p \in Actors(seats) : TableReady(seats) /\ Start(p)
    \/ \E p \in Actors(seats) : \E target \in Nominees(p, Actors(seats)) : Sitting(maxTurns) /\ ChooseChancellor(p, target)
    \/ \E p \in Actors(seats), vote \in BOOLEAN : VoteTurn(p, vote) /\ VoteChancellor(p, vote)
    \/ \E p \in Actors(seats), color \in CardColor : PickCard(p, color)
    \/ \E p \in Actors(seats) : Veto(p)
    \/ \E p \in Actors(seats) : \E target \in Targets(p, Actors(seats)) : ExecutePower(p, target)

\* The main run: the smallest table, played for MaxTurns presidencies.
Next == NextOver(MinPlayers, MaxTurns)
Spec == Init /\ [][Next]_vars

\* The long run: the smallest table, played for DeepTurns presidencies.
NextDeep == NextOver(MinPlayers, DeepTurns)
SpecDeep == Init /\ [][NextDeep]_vars

\* The large-table run: the smallest table with investigations, played for
\* LargeTurns presidencies.
NextLarge == NextOver(InvestigateTable, LargeTurns)
SpecLarge == Init /\ [][NextLarge]_vars

\* The run over the table sizes: participants join up to one more than the
\* largest table, anyone tries to start at any size, and the table plays for
\* TableTurns presidencies.
NextTables ==
    \/ \E p \in 1..(MaxPlayers + 1) : FreshId(p, MaxPlayers + 1) /\ AddPlayer(p)
    \/ \E p \in 1..(MaxPlayers + 1) : Start(p)
    \/ \E p \in 1..(MaxPlayers + 1) : \E target \in Nominees(p, 1..(MaxPlayers + 1)) : Sitting(TableTurns) /\ ChooseChancellor(p, target)
    \/ \E p \in 1..(MaxPlayers + 1), vote \in BOOLEAN : VoteTurn(p, vote) /\ VoteChancellor(p, vote)
    \/ \E p \in 1..(MaxPlayers + 1), color \in CardColor : PickCard(p, color)
SpecTables == Init /\ [][NextTables]_vars

\* The session run. One participant more than the smallest table comes to
\* the lobby, each on a socket of its own and in socket order; the sockets
\* beyond those are second connections of participants.
SessionSeats == MinPlayers + 1
Joins(k) == k <= SessionSeats /\ issued = k - 1
\* A second connection names the first participant, the last one or an id
\* that never joined, and presents no secret, a wrong one or the id's own.
Reattaches(k) == k > SessionSeats
Named == {1, SessionSeats, SessionSeats + 1}
Presented(player_id) == {None, Some(0), Some(player_id)}
\* In the lobby the last participant and the second connections come and
\* go; once the game has started the other sockets close too, in socket
\* order, and the first participant may leave as well.
Closes(k) ==
    \/ k >= SessionSeats
    \/ turn_phase # Lobby /\ \A j \in 1..(k - 1) : ~sockets[j].open
Leaves(k) == k >= SessionSeats \/ (turn_phase # Lobby /\ k = 1)
\* The clock is watched while the session carries an idle mark.
Watched == timeout # None

NextSession ==
    \/ \E k \in Sockets : Joins(k) /\ HostGame(k)
    \/ \E k \in Sockets : Joins(k) /\ JoinGame(k, None, None)
    \/ \E k \in Sockets : \E player_id \in Named : \E player_secret \in Presented(player_id) :
          Reattaches(k) /\ JoinGame(k, Some(player_id), player_secret)
    \/ \E k \in Sockets : StartGame(k)
    \/ \E k \in Sockets : Leaves(k) /\ Leave(k)
    \/ \E k \in Sockets : Closes(k) /\ Disconnect(k)
    \/ cleanup_global_state
    \/ \E d \in {IdleMinutes, IdleMinutes + 1} : Watched /\ Tick(d)
SpecSession == Init /\ [][NextSession]_vars

\* The session run with the interval timer firing and the clock advancing:
\* the sweep runs again and again, and a marked session's time elapses.
SpecIdle ==
    /\ Init
    /\ [][NextSession]_vars
    /\ WF_vars(cleanup_global_state)
    /\ WF_vars(\E d \in {IdleMinutes, IdleMinutes + 1} : Watched /\ Tick(d))

\* The opening of the late-game run lasts until the veto is unlocked: every
\* alive voter votes Yes, the president sets a Liberal card aside when one
\* is drawn, and the chancellor enacts a Fascist card when one is on offer.
Opening == facist_policies < VetoUnlock
OpeningVote(p, vote) ==
    IF ~Opening THEN TRUE
    ELSE IF p \notin DOMAIN players THEN TRUE
    ELSE IF players[p].dead THEN TRUE
    ELSE vote
OpeningPick(color) ==
    IF ~(Opening /\ Len(cards) >= HandSize) THEN TRUE
    ELSE
        IF turn_phase = PresidentSelect
        THEN color = (IF "Liberal" \in Range(TopCards(cards)) THEN "Liberal" ELSE "Facist")
        ELSE IF turn_phase = ChancellorSelect /\ discarded # <<>>
        THEN LET top == TopCards(cards)
                 left == RemoveAt(top, RPosition(top, Last(discarded)))
             IN  color = (IF "Facist" \in Range(left) THEN "Facist" ELSE "Liberal")
        ELSE TRUE

\* The run over the power table: a table of any size from the smallest to
\* the largest is started by its host and played for PowerTurns
\* presidencies by those whose turn it is. The president nominates, and names for a power, the
\* eligible player with the lowest id; the voters all vote as the first
\* of them does; the president sets a Liberal card aside when one is drawn
\* and the chancellor enacts either card.
Eligible(p) ==
    {q \in DOMAIN players :
        q # p /\ ~players[q].dead /\ (turn_phase = Electing => ~TermLimited(S, q))}
Lowest(ids) == {q \in ids : \A r \in ids : q <= r}
BlocVote(p, vote) ==
    IF p \notin DOMAIN players THEN FALSE
    ELSE \A q \in DOMAIN players : players[q].vote # None => players[q].vote = Some(vote)
PresidentCut(color) ==
    IF turn_phase = PresidentSelect /\ Len(cards) >= HandSize
    THEN color = (IF "Liberal" \in Range(TopCards(cards)) THEN "Liberal" ELSE "Facist")
    ELSE TRUE

NextPowers ==
    \/ \E p \in 1..MaxPlayers : turn_phase = Lobby /\ FreshId(p, MaxPlayers) /\ AddPlayer(p)
    \/ \E p \in DOMAIN players : turn_phase = Lobby /\ Some(p) = host /\ Start(p)
    \/ \E p \in DOMAIN players : \E target \in Lowest(Eligible(p)) :
          turn_phase = Electing /\ turn_counter < PowerTurns /\ Some(p) = president
              /\ ChooseChancellor(p, target)
    \/ \E p \in DOMAIN players, vote \in BOOLEAN :
          ~players[p].dead /\ VoteTurn(p, vote) /\ BlocVote(p, vote) /\ VoteChancellor(p, vote)
    \/ \E p \in DOMAIN players, color \in CardColor :
          turn_phase \in {PresidentSelect, ChancellorSelect}
              /\ Some(p) = (IF turn_phase = PresidentSelect THEN president ELSE chancellor)
              /\ PresidentCut(color) /\ PickCard(p, color)
    \/ \E p \in DOMAIN players : \E target \in Lowest(Eligible(p)) :
          IsPower(turn_phase) /\ Some(p) = president /\ ExecutePower(p, Some(target))
SpecPowers == Init /\ [][NextPowers]_vars

\* The late-game run: the smallest table, scripted through the opening, then
\* played freely, LateTurns presidencies in all.
NextLate ==
    \/ \E p \in Actors(MinPlayers) : FreshId(p, MinPlayers) /\ AddPlayer(p)
    \/ \E p \in Actors(MinPlayers) : TableReady(MinPlayers) /\ Start(p)
    \/ \E p \in Actors(MinPlayers) : \E target \in Nominees(p, Actors(MinPlayers)) : Sitting(LateTurns) /\ ChooseChancellor(p, target)
    \/ \E p \in Actors(MinPlayers), vote \in BOOLEAN : VoteTurn(p, vote) /\ OpeningVote(p, vote) /\ VoteChancellor(p, vote)
    \/ \E p \in Actors(MinPlayers), color \in CardColor : OpeningPick(color) /\ PickCard(p, color)
    \/ \E p \in Actors(MinPlayers) : Veto(p)
    \/ \E p \in Actors(MinPlayers) : \E target \in Targets(p, Actors(MinPlayers)) : ExecutePower(p, target)
SpecLate == Init /\ [][NextLate]_vars

\* The run to the win thresholds: a table of 5 is started by its host and
\* played for WinTurns presidencies by those whose turn it is. The
\* president nominates, and names for a power, the eligible player with the
\* lowest id; the voters all vote as the first of them does; the president
\* sets aside a colour that is in the hand, the chancellor names either
\* colour, and either of them may ask for a veto.
InHand(color) ==
    IF turn_phase = PresidentSelect /\ Len(cards) >= HandSize
    THEN color \in Range(TopCards(cards))
    ELSE TRUE

NextWins ==
    \/ \E p \in 1..MinPlayers : turn_phase = Lobby /\ FreshId(p, MinPlayers) /\ AddPlayer(p)
    \/ \E p \in DOMAIN players : turn_phase = Lobby /\ Some(p) = host /\ Start(p)
    \/ \E p \in DOMAIN players : \E target \in Lowest(Eligible(p)) :
          turn_phase = Electing /\ turn_counter < WinTurns /\ Some(p) = president
              /\ ChooseChancellor(p, target)
    \/ \E p \in DOMAIN players, vote \in BOOLEAN :
          ~players[p].dead /\ VoteTurn(p, vote) /\ BlocVote(p, vote) /\ VoteChancellor(p, vote)
    \/ \E p \in DOMAIN players, color \in CardColor :
          turn_phase \in {PresidentSelect, ChancellorSelect}
              /\ Some(p) = (IF turn_phase = PresidentSelect THEN president ELSE chancellor)
              /\ InHand(color) /\ PickCard(p, color)
    \/ \E p \in DOMAIN players :
          turn_phase = ChancellorSelect /\ facist_policies >= VetoUnlock
              /\ Some(p) \in {president, chancellor} /\ Veto(p)
    \/ \E p \in DOMAIN players : \E target \in Lowest(Eligible(p)) :
          IsPower(turn_phase) /\ Some(p) = president /\ ExecutePower(p, Some(target))
SpecWins == Init /\ [][NextWins]_vars

\* ------------------------------------------------------------ properties
Started == turn_phase # Lobby
Running == Started /\ ~IsEnded(turn_phase)
Investigated(o) == IF o \in DOMAIN investigated THEN Range(investigated[o]) ELSE {}
Visible(o) == o \in DOMAIN players /\ ~ViewPanics(S, conn, o)

\* C1 (win monotonicity): once the phase is Ended{winner}, no operation of
\* any participant changes the phase, the winner, the number of Liberal or
\* Fascist policies enacted, or the role of any player.
C1_WinMonotonic ==
    [][IsEnded(turn_phase) =>
          /\ turn_phase' = turn_phase
          /\ liberal_policies' = liberal_policies
          /\ facist_policies' = facist_policies
          /\ \A p \in DOMAIN players :
                p \in DOMAIN players' /\ players'[p].role = players[p].role]_vars

\* The game is over, a participant has since disconnected, and the last
\* operation attempted on the finished game was rejected.
C1_Witness ==
    /\ IsEnded(turn_phase)
    /\ ret = "Err"
    /\ \E p \in DOMAIN conn : ~conn[p].connected

\* The cards of colour c on the draw pile (which holds the cards in hand)
\* and on the discard pile. In ChancellorSelect the discard pile ends with
\* the record of the president's set-aside card, which is still among the
\* top 3 of the draw pile: it is counted once.
InPlay(c) ==
    Count(cards, c) + Count(discarded, c)
        - (IF turn_phase = ChancellorSelect /\ discarded # <<>> /\ Last(discarded) = c THEN 1 ELSE 0)

YesAlive(ps) == Cardinality({p \in DOMAIN ps : ~ps[p].dead /\ ps[p].vote = Some(TRUE)})
NoAlive(ps) == Cardinality({p \in DOMAIN ps : ~ps[p].dead /\ ps[p].vote = Some(FALSE)})
AllAliveVoted(ps) == \A p \in DOMAIN ps : ~ps[p].dead => ps[p].vote # None
VotePassed == turn_phase = Voting /\ turn_phase' \in {PresidentSelect, Ended("Facist")}

\* C3 (vote tally): the tally happens exactly when every alive player has a
\* recorded vote; the chancellor is elected iff strictly more alive players
\* voted yes than no (dead players count on neither side); when elected and
\* Hitler does not win, the phase is PresidentSelect and the tracker is 0.
C3_VoteTally ==
    [][turn_phase = Voting =>
          /\ turn_phase' # Voting <=> AllAliveVoted(players')
          /\ AllAliveVoted(players') => (VotePassed <=> YesAlive(players') > NoAlive(players'))
          /\ turn_phase' = PresidentSelect => election_tracker' = 0]_vars

\* C4 (Hitler elected): when a vote elects the chancellor, the game ends
\* with a Fascist win if the chancellor is Hitler and at least 3 Fascist
\* policies are enacted, and goes on to PresidentSelect otherwise.
C4_HitlerElected ==
    [][VotePassed =>
          turn_phase' = IF players[chancellor[1]].role = "Hitler" /\ facist_policies >= 3
                        THEN Ended("Facist")
                        ELSE PresidentSelect]_vars

ElectedMembers == IF elected = None THEN {} ELSE {elected[1][1], elected[1][2]}
OtherTargets ==
    {q \in DOMAIN players : ~players[q].dead /\ Some(q) # president /\ q \notin ElectedMembers}

\* C5 (term limit): a nomination that is accepted never names the president
\* or the chancellor of the most recently elected government, whatever
\* operations came in between, whenever some other eligible target exists.
C5_TermLimit ==
    [][(turn_phase = Electing /\ turn_phase' = Voting /\ OtherTargets # {}) =>
          chancellor'[1] \notin ElectedMembers]_vars

\* C6 (president's cut): in PresidentSelect a pick is either rejected, the
\* state unchanged, or sets aside a card whose colour is among the 3 drawn
\* cards, clears both veto flags and moves to ChancellorSelect.
C6_PresidentCut ==
    [][turn_phase = PresidentSelect =>
          \/ UNCHANGED game
          \/ /\ turn_phase' = ChancellorSelect
             /\ \E c \in Range(TopCards(cards)) : discarded' = Append(discarded, c)
             /\ ~president_veto' /\ ~chancellor_veto']_vars

\* C7 (visibility symmetry): while the game is not ended, the view of a
\* Liberal observer o shows no role for any other player k that o has not
\* investigated, and stays the same whichever role k holds.
C7_RoleHidden ==
    \A o \in DOMAIN players : \A k \in DOMAIN players :
        (/\ o # k
         /\ ~IsEnded(turn_phase)
         /\ players[o].role = "Liberal"
         /\ k \notin Investigated(o)
         /\ Visible(o)) =>
            /\ View(S, o).players[k].role = None
            /\ \A r \in PlayerType : View([S EXCEPT !.players[k].role = r], o) = View(S, o)

\* A Liberal who has investigated one player looks at another Liberal that
\* was not investigated, in a running game.
C7_Witness ==
    \E o \in DOMAIN players : \E k \in DOMAIN players :
        /\ o # k
        /\ Running
        /\ players[o].role = "Liberal"
        /\ players[k].role = "Liberal"
        /\ Investigated(o) # {}
        /\ k \notin Investigated(o)
        /\ Visible(o)

Privileged(o) ==
    \/ players[o].role = "Facist"
    \/ players[o].role = "Hitler" /\ Cardinality(DOMAIN players) <= SmallGame

\* C8 (investigation never identifies Hitler): while the game is not ended,
\* an observer o that is neither Fascist nor Hitler at a small table sees an
\* investigated player k as Liberal or Fascist only, and the view is the
\* same whether k is a Fascist or Hitler.
C8_Investigation ==
    \A o \in DOMAIN players : \A k \in DOMAIN players :
        (/\ o # k
         /\ ~IsEnded(turn_phase)
         /\ ~Privileged(o)
         /\ k \in Investigated(o)
         /\ Visible(o)) =>
            /\ View(S, o).players[k].role
                  = Some(IF players[k].role = "Liberal" THEN "Liberal" ELSE "Facist")
            /\ View([S EXCEPT !.players[k].role = "Facist"], o)
                  = View([S EXCEPT !.players[k].role = "Hitler"], o)

\* A Liberal has investigated Hitler, in a running game.
C8_Witness ==
    \E o \in DOMAIN players : \E k \in DOMAIN players :
        /\ Running
        /\ ~Privileged(o)
        /\ k \in Investigated(o)
        /\ players[k].role = "Hitler"
        /\ Visible(o)

\* C9 (hand visibility): a view holds the 3 drawn cards for the president in
\* PresidentSelect and PolicyPeek; it holds 2 cards for the chancellor in
\* ChancellorSelect, the drawn cards less the one set aside, which are the
\* colours pick_card lets the chancellor enact; it holds no cards for any
\* other observer or phase.
C9_HandVisibility ==
    \A o \in DOMAIN players :
        Visible(o) =>
            LET vc == View(S, o).cards IN
            IF turn_phase \in {PresidentSelect, Power("PolicyPeek")} /\ president = Some(o)
            THEN vc = Some(TopCards(cards))
            ELSE IF turn_phase = ChancellorSelect /\ chancellor = Some(o)
            THEN /\ vc # None
                 /\ Len(vc[1]) = 2
                 /\ \A c \in CardColor :
                       /\ Count(vc[1], c) + (IF Last(discarded) = c THEN 1 ELSE 0)
                             = Count(TopCards(cards), c)
                       /\ c \in Range(vc[1]) <=> \A out \in pick_card(S, o, c) : out.r = "Ok"
            ELSE vc = None

\* The chancellor looks at one Liberal and one Fascist card.
C9_Witness ==
    /\ turn_phase = ChancellorSelect
    /\ chancellor # None
    /\ Visible(chancellor[1])
    /\ Range(View(S, chancellor[1]).cards[1]) = CardColor

\* The president peeks at the next three cards.
C9_WitnessPeek ==
    /\ turn_phase = Power("PolicyPeek")
    /\ president # None
    /\ Visible(president[1])
    /\ View(S, president[1]).cards = Some(TopCards(cards))

\* C10 (vote visibility): in Voting the view of observer o hides every other
\* player's vote and shows o's own; in every other phase the view shows
\* every player's vote as recorded.
C10_VoteVisibility ==
    \A o \in DOMAIN players : \A k \in DOMAIN players :
        Visible(o) =>
            View(S, o).players[k].vote
                = IF turn_phase = Voting /\ k # o THEN None ELSE players[k].vote

\* A vote is under way: some player has voted, and another one, who has
\* voted too, looks on.
C10_Witness ==
    \E o \in DOMAIN players : \E k \in DOMAIN players :
        /\ turn_phase = Voting
        /\ o # k
        /\ players[k].vote # None
        /\ players[o].vote = Some(TRUE)
        /\ Visible(o)

TableFascists(n) == IF n \in {5, 6} THEN 1 ELSE IF n \in {7, 8} THEN 2 ELSE 3
RoleCount(ps, r) == Cardinality({p \in DOMAIN ps : ps[p].role = r})
StartStep == turn_phase = Lobby /\ turn_phase' # Lobby

\* C11 (role distribution): a successful start of a roster of n players, n
\* in 5..10, leaves exactly one Hitler, the table's number of Fascists and
\* Liberals otherwise, the counts summing to n, and a turn order that is a
\* permutation of the roster.
C11_RoleDistribution ==
    [][StartStep =>
          LET n == Cardinality(DOMAIN players') IN
          /\ n \in MinPlayers..MaxPlayers
          /\ DOMAIN players' = DOMAIN players
          /\ RoleCount(players', "Hitler") = 1
          /\ RoleCount(players', "Facist") = TableFascists(n)
          /\ RoleCount(players', "Liberal") = n - TableFascists(n) - 1
          /\ Len(turn_order') = n
          /\ Range(turn_order') = DOMAIN players']_vars

\* A table of 10 has been started, with 3 Fascists.
C11_Witness ==
    /\ Running
    /\ Cardinality(DOMAIN players) = MaxPlayers
    /\ RoleCount(players, "Facist") = 3
    /\ ret = "Ok"

\* C12 (start): start succeeds iff the phase is Lobby, the actor is the host
\* and the roster has 5 to 10 players, a start by anyone else is rejected,
\* and a successful start leaves phase Electing with the first entry of the
\* turn order as president.
C12_StartGuard ==
    [][/\ \A p \in 1..(MaxPlayers + 1) : \A out \in start(S, p) :
             /\ out.r \in {"Ok", "Err"}
             /\ out.r = "Ok" <=>
                   /\ turn_phase = Lobby
                   /\ host = Some(p)
                   /\ Cardinality(DOMAIN players) \in MinPlayers..MaxPlayers
             /\ out.r = "Ok" =>
                   out.s.turn_phase = Electing /\ out.s.president = Some(out.s.turn_order[1])
       /\ StartStep =>
             /\ host # None /\ host[1] \in DOMAIN players
             /\ Cardinality(DOMAIN players) \in MinPlayers..MaxPlayers
             /\ turn_phase' = Electing
             /\ president' = Some(turn_order'[1])]_vars

\* A table of 6 has been started: the phase is Electing and the president is
\* the first of the turn order.
C12_Witness ==
    /\ turn_phase = Electing
    /\ turn_counter = 0
    /\ ret = "Ok"
    /\ Cardinality(DOMAIN players) = 6
    /\ president = Some(turn_order[1])

NominationOk(p, target) ==
    /\ turn_phase = Electing
    /\ president = Some(p)
    /\ target \in DOMAIN players
    /\ ~players[target].dead
    /\ target # p
    /\ Some(target) # last_president
    /\ Some(target) # last_chancellor

RejectedStep == turn_phase = Voting /\ turn_phase' # Voting /\ ~VotePassed
Enacted(c) == IF c = "Liberal" THEN liberal_policies ELSE facist_policies
NextInOrder == Some(turn_order[((turn_counter + 1) % Len(turn_order)) + 1])
\* The rejection only raises the tracker and passes the presidency on.
PassesOn ==
    /\ election_tracker' = election_tracker + 1
    /\ turn_phase' = Electing
    /\ turn_counter' = turn_counter + 1
    /\ president' = NextInOrder
    /\ chancellor' = None
    /\ UNCHANGED <<cards, discarded, liberal_policies, facist_policies>>
\* The rejection enacts the top card of the draw pile.
ForcesTopCard ==
    /\ election_tracker' = 0
    /\ cards # <<>>
    /\ \A c \in CardColor :
          /\ (Enacted(c))' = Enacted(c) + (IF c = Last(cards) THEN 1 ELSE 0)
          /\ Count(cards', c) + Count(discarded', c)
                = Count(cards, c) + Count(discarded, c) - (IF c = Last(cards) THEN 1 ELSE 0)
    /\ turn_phase' \notin {PresidentSelect, ChancellorSelect, Voting}

\* C14 as stated (chaos government): the first and the second consecutive
\* rejected election only raise the tracker and pass the presidency on; the
\* third enacts the top card of the draw pile with no selection phase and
\* leaves the tracker at 0.
C14_AsStated ==
    [][RejectedStep => IF rejections + 1 < TrackerLimit THEN PassesOn ELSE ForcesTopCard]_vars

\* C14 (chaos government, amended): a rejected election that finds the
\* tracker below 2 only raises it and passes the presidency on; one that
\* finds it at 2, the third failed government in a row where an agreed veto
\* counts as one, enacts the top card of the draw pile with no selection
\* phase and leaves the tracker at 0.
C14_Chaos ==
    [][RejectedStep => IF election_tracker + 1 < TrackerLimit THEN PassesOn ELSE ForcesTopCard]_vars

\* A third rejection in a row has just enacted the top card.
C14_Witness ==
    /\ rejections = 0
    /\ election_tracker = 0
    /\ chancellor = None
    /\ elected # None
    /\ \A q \in DOMAIN players : ~players[q].dead => players[q].vote = Some(FALSE)
    /\ turn_phase \in {Electing, Ended("Facist"), Ended("Liberal")}
    /\ liberal_policies + facist_policies > VetoUnlock

Without(s, x) == SelectSeq(s, LAMBDA y : y # x)

\* C15 (execution): in PresidentialPower{Execution} the president's
\* execution of a living other player always succeeds; it marks the target
\* dead and takes it out of the turn order; if the target is Hitler the phase
\* is Ended{Liberal} with the policy counts as they were, otherwise the
\* turn counter advances, the president is the turn order's entry for it,
\* and the phase is Electing.
C15_Execution ==
    [][turn_phase = Power("Execution") =>
          /\ \A x \in DOMAIN players :
                (~players[x].dead /\ Some(x) # president) =>
                    \A out \in execute_presidential_power(S, president[1], Some(x)) : out.r = "Ok"
          /\ turn_phase' # turn_phase =>
                \E x \in DOMAIN players :
                   /\ ~players[x].dead
                   /\ Some(x) # president
                   /\ players' = [players EXCEPT ![x].dead = TRUE]
                   /\ turn_order' = Without(turn_order, x)
                   /\ UNCHANGED <<liberal_policies, facist_policies, cards, discarded>>
                   /\ IF players[x].role = "Hitler"
                      THEN turn_phase' = Ended("Liberal")
                      ELSE /\ turn_phase' = Electing
                           /\ turn_counter' = turn_counter + 1
                           /\ president' = Some(turn_order'[(turn_counter' % Len(turn_order')) + 1])
                           /\ chancellor' = None]_vars

\* Hitler has been executed with fewer than 5 Liberal policies enacted: the
\* Liberals have won.
C15_Witness ==
    /\ turn_phase = Ended("Liberal")
    /\ liberal_policies < LiberalWin
    /\ \E x \in DOMAIN players :
          players[x].role = "Hitler" /\ players[x].dead /\ x \notin Range(turn_order)

HandPhases == {PresidentSelect, ChancellorSelect, Power("PolicyPeek")}
EnactStep == liberal_policies' + facist_policies' = liberal_policies + facist_policies + 1
\* The cards an enactment takes off the draw pile: the top card after a
\* rejected election, the hand after the chancellor's pick.
Taken == IF turn_phase = Voting THEN 1 ELSE HandSize

\* C16 (reshuffle): an enactment that leaves fewer than 3 cards on the draw
\* pile moves the whole discard pile into it (the discard pile is empty
\* afterwards, no card is lost or added), any other enactment leaves the
\* rest of the draw pile as it was, and every state in PresidentSelect,
\* ChancellorSelect or PolicyPeek has at least 3 cards on the draw pile.
C16_Reshuffle ==
    [][/\ turn_phase' \in HandPhases => Len(cards') >= HandSize
       /\ EnactStep =>
             /\ Len(cards') >= HandSize
             /\ \A c \in CardColor :
                   Count(cards', c) + Count(discarded', c) + (Enacted(c))' = InPlay(c) + Enacted(c)
             /\ IF Len(cards) - Taken < HandSize
                THEN discarded' = <<>>
                ELSE cards' = SubSeq(cards, 1, Len(cards) - Taken)]_vars

\* The fifth enactment has left 2 cards on the draw pile and the discard
\* pile has been shuffled into it: the president peeks at 3 of 12 cards.
C16_Witness ==
    /\ turn_phase = Power("PolicyPeek")
    /\ liberal_policies + facist_policies = 5
    /\ discarded = <<>>
    /\ Len(cards) = NumLiberalCards + NumFacistCards - 5

\* C17 (rejections are no-ops): whenever start, choose_chancellor,
\* vote_chancellor, pick_card, veto or execute_presidential_power returns a
\* rejection, every field of the game state is as it was before the call,
\* for the calls the run makes and for every other actor and argument.
C17_RejectionsNoOp ==
    /\ [][ret' = "Err" => UNCHANGED game]_vars
    /\ [](\A p \in Actors(MinPlayers) :
             /\ \A out \in start(S, p) \cup veto(S, p) : out.r = "Err" => out.s = S
             /\ \A target \in Actors(MinPlayers) :
                   /\ \A out \in choose_chancellor(S, p, target) : out.r = "Err" => out.s = S
                   /\ \A out \in execute_presidential_power(S, p, Some(target)) : out.r = "Err" => out.s = S
             /\ \A out \in execute_presidential_power(S, p, None) : out.r = "Err" => out.s = S
             /\ \A vote \in BOOLEAN : \A out \in vote_chancellor(S, p, vote) : out.r = "Err" => out.s = S
             /\ \A color \in CardColor :
                   \A out \in pick_card(S, p, color) : out.r = "Err" => out.s = S)

\* A call has just been rejected while the chancellor holds two cards of a
\* government with a dead player at the table and the tracker raised.
C17_Witness ==
    /\ ret = "Err"
    /\ turn_phase = ChancellorSelect
    /\ \E q \in DOMAIN players : players[q].dead
    /\ \E q \in DOMAIN players : players[q].vote = Some(FALSE)

\* C18 (fixed roster): once the game has started, no join, reconnect,
\* disconnect or leave adds a player record to the game or removes one from
\* it, whoever sends it; a join under an id without a connection record
\* is refused and a reconnect leaves the roster as it was.
C18_RosterFixed == [][Started => DOMAIN players' = DOMAIN players]_vars

\* C19 (rejected reconnect): a JoinGame that names an existing player id
\* with a missing or mismatched secret leaves the stored connections, the
\* roster, the game state and the session's idle mark as they were.
C19_RejectedJoin == [][ret' = "BadSecret" => UNCHANGED <<conn, game, timeout>>]_vars

\* A socket on which a player is attached to the session.
Live(k) == sockets[k].open /\ sockets[k].current_player # None

\* C20 (no live reclaim): the sweep never removes the session from the
\* global map while a participant has an open connection attached to it.
C20_NoLiveReclaim == reclaimed => ~\E k \in Sockets : Live(k)

\* Every participant has gone and nobody can connect again: the session
\* has been hosted and every socket, attached or not, has closed.
Gone == issued > 0 /\ \A k \in Sockets : ~sockets[k].open

\* C21 (idle sessions are reclaimed): if from some point on every
\* participant has disconnected or left and nobody connects again, then,
\* with the sweep running repeatedly and time passing, the session is
\* eventually removed from the registry.
C21_IdleReclaimed == <>[]Gone => <>reclaimed

\* The step on which the second of president and chancellor consents.
JointVetoStep ==
    /\ turn_phase = ChancellorSelect
    /\ ~(president_veto /\ chancellor_veto)
    /\ president_veto' /\ chancellor_veto'

\* C22 (joint veto): once both the president and the chancellor have
\* consented, the election tracker is raised by one, the 3 drawn cards leave
\* the draw pile for the discard pile (the discard pile holds them and what
\* it held before the president's cut), no policy is enacted, and the
\* presidency advances.
C22_JointVeto ==
    [][(JointVetoStep /\ election_tracker + 1 < TrackerLimit) =>
          /\ election_tracker' = election_tracker + 1
          /\ cards' = SubSeq(cards, 1, Len(cards) - HandSize)
          /\ \A c \in CardColor :
                Count(discarded', c) = Count(Pop(discarded), c) + Count(TopCards(cards), c)
          /\ UNCHANGED <<liberal_policies, facist_policies>>
          /\ turn_phase' = Electing
          /\ president' = NextInOrder]_vars

\* The phase the power table gives after the f-th Fascist policy at a table
\* of n players; Electing stands for the advance of the presidency.
TablePhase(n, f) ==
    CASE n \in {5, 6} /\ f = 3 -> Power("PolicyPeek")
      [] n \in {9, 10} /\ f \in {1, 2} -> Power("InvestigateLoyalty")
      [] n \in {7, 8} /\ f = 2 -> Power("InvestigateLoyalty")
      [] n \in {7, 8, 9, 10} /\ f = 3 -> Power("CallSpecialElection")
      [] f \in {4, 5} -> Power("Execution")
      [] OTHER -> Electing

\* C23 (power table): an enactment of a Fascist policy, by the chancellor or
\* forced, that leaves fewer than 6 Fascist policies is followed by the phase
\* of the power table for the number of players and of Fascist policies,
\* where the advance of the presidency raises the turn counter; an
\* enactment of a Liberal policy is never followed by a power.
C23_PowerTable ==
    [][/\ (facist_policies' = facist_policies + 1 /\ facist_policies' < FacistWin) =>
             /\ turn_phase' = TablePhase(Cardinality(DOMAIN players), facist_policies')
             /\ turn_phase' = Electing => turn_counter' = turn_counter + 1
       /\ liberal_policies' = liberal_policies + 1 => ~IsPower(turn_phase')]_vars

\* A table of 8 has enacted its third Fascist policy and calls a special
\* election, after an investigation and with a Liberal policy enacted.
C23_Witness ==
    /\ Cardinality(DOMAIN players) = 8
    /\ facist_policies = 3
    /\ liberal_policies > 0
    /\ investigated # <<>>
    /\ turn_phase = Power("CallSpecialElection")

\* The 2 cards left to the chancellor: the 3 drawn cards less one card of
\* the colour the president set aside.
Remaining ==
    LET top == TopCards(cards)
        cut == Position(top, Last(discarded))
    IN  IF cut = 0 THEN top ELSE RemoveAt(top, cut)

\* The card of the 2 remaining that the chancellor does not enact.
Unchosen(color) ==
    LET at == Position(Remaining, color)
    IN  Last(IF at = 0 THEN Remaining ELSE RemoveAt(Remaining, at))

\* C24 (chancellor's enactment): in ChancellorSelect, pick_card by the
\* chancellor with a colour among the 2 remaining cards succeeds, takes the
\* 3 drawn cards off the draw pile, raises the count of the chosen colour by
\* exactly 1 and leaves the president's set-aside card and the unchosen card
\* on the discard pile; any other colour and any other actor is rejected
\* with the state unchanged.
C24_ChancellorPick ==
    (turn_phase = ChancellorSelect /\ Len(cards) >= HandSize /\ discarded # <<>>) =>
        \A p \in DOMAIN players, color \in CardColor :
            \A o \in pick_card(S, p, color) :
                IF Some(p) = chancellor /\ color \in Range(Remaining)
                THEN /\ o.r = "Ok"
                     /\ \A c \in CardColor :
                            (IF c = "Liberal" THEN o.s.liberal_policies ELSE o.s.facist_policies)
                                = Enacted(c) + (IF c = color THEN 1 ELSE 0)
                     /\ o.s.discarded = Append(discarded, Unchosen(color))
                ELSE o.r = "Err" /\ o.s = S

\* The living player that follows p in the cyclic turn order, the order
\* taken before the step and life taken after it.
Successor(p) ==
    LET n == Len(turn_order)
        i == Position(turn_order, p)
        at(k) == turn_order[((i - 1 + k) % n) + 1]
        k == CHOOSE j \in 1..n : ~players'[at(j)].dead /\ \A h \in 1..(j - 1) : players'[at(h)].dead
    IN  at(k)

\* C25 (rotation order): in a game without special elections (5 or 6
\* players), every advance of the presidency hands it to the next living
\* player after the previous president in the cyclic turn order.
C25_Rotation ==
    [][(/\ Running
        /\ Cardinality(DOMAIN players) <= SmallGame
        /\ DOMAIN players' = DOMAIN players
        /\ turn_counter' = turn_counter + 1
        /\ president # None) =>
            president' = Some(Successor(president[1]))]_vars

\* C26 (no stuck election): in every state with phase Electing there is a
\* target for which choose_chancellor by the current president succeeds.
C26_NoStuckElection ==
    (turn_phase = Electing /\ president # None) =>
        \E target \in DOMAIN players :
            \E o \in choose_chancellor(S, president[1], target) : o.r = "Ok"

\* C27 (no internal failure): no operation and no view projection panics;
\* while the game runs the draw pile holds at least 3 cards and every
\* roster member has a connection record, and in ChancellorSelect the
\* colour on top of the discard pile is among the top 3 cards of the draw
\* pile.
C27_NoInternalFailure ==
    /\ ret # "Panic"
    /\ Running => Len(cards) >= HandSize
    /\ Running => DOMAIN players \subseteq DOMAIN conn
    /\ turn_phase = ChancellorSelect =>
           /\ discarded # <<>>
           /\ Last(discarded) \in Range(TopCards(cards))

\* C28 (card accounting with enacted policies): in every state after the
\* start whose phase is not ChancellorSelect, the draw pile, the discard
\* pile and the enacted policies together hold 6 Liberal and 11 Fascist
\* cards, 17 in all.
C28_CardAccounting ==
    (Started /\ turn_phase # ChancellorSelect) =>
        /\ Len(cards) + Len(discarded) + liberal_policies + facist_policies
               = NumLiberalCards + NumFacistCards
        /\ Count(cards, "Liberal") + Count(discarded, "Liberal") + liberal_policies = NumLiberalCards
        /\ Count(cards, "Facist") + Count(discarded, "Facist") + facist_policies = NumFacistCards

\* The player the turn pointer designates.
Pointer == Some(turn_order[(turn_counter % Len(turn_order)) + 1])

\* Nobody has been executed.
NoneDead == \A p \in DOMAIN players : ~players[p].dead

\* A president installed by a special election is in office: the president
\* is not the player the turn pointer designates.
SpecialTerm ==
    /\ Running
    /\ NoneDead
    /\ turn_order # <<>>
    /\ president # Pointer
    /\ last_president # None

\* C29 (special election): the call of a special election makes a living
\* other player president, clears the chancellor, records the calling
\* government as the last one and moves to Electing with the turn pointer
\* and the turn order unchanged; the next advance of the presidency then
\* goes to the living player that follows the calling president in turn
\* order.
C29_SpecialElection ==
    /\ [][(turn_phase = Power("CallSpecialElection") /\ turn_phase' # turn_phase) =>
             /\ president' # president
             /\ president' # None
             /\ president'[1] \in DOMAIN players
             /\ ~players[president'[1]].dead
             /\ chancellor' = None
             /\ last_president' = president
             /\ last_chancellor' = chancellor
             /\ turn_phase' = Electing
             /\ UNCHANGED <<turn_counter, turn_order>>]_vars
    /\ [][(SpecialTerm /\ turn_counter' = turn_counter + 1) =>
             president' = Some(Successor(last_president[1]))]_vars

\* Player p holds a record of a living player.
Living(p) == IF p \in DOMAIN players THEN ~players[p].dead ELSE FALSE

C31_TurnOrder ==
    Started =>
        /\ \A i \in 1..Len(turn_order) : Living(turn_order[i])
        /\ \A i, j \in 1..Len(turn_order) : turn_order[i] = turn_order[j] => i = j
        /\ president # None
        /\ Living(president[1])

\* Two players have been executed and the presidency has passed on to a
\* player of the shortened turn order.
C31_Witness ==
    /\ turn_phase = Electing
    /\ Cardinality({p \in DOMAIN players : players[p].dead}) = 2
    /\ Len(turn_order) = Cardinality(DOMAIN players) - 2
    /\ president # None

\* C32 (policy bounds and win thresholds): at most 5 Liberal and 6 Fascist
\* policies are enacted and the election tracker stays below 3; 5 Liberal
\* policies are found only in Ended{Liberal} and 6 Fascist policies only in
\* Ended{Facist}, so the enactment that reaches a threshold grants no power.
C32_Thresholds ==
    /\ liberal_policies <= LiberalWin
    /\ facist_policies <= FacistWin
    /\ election_tracker < TrackerLimit
    /\ liberal_policies = LiberalWin => turn_phase = Ended("Liberal")
    /\ facist_policies = FacistWin => turn_phase = Ended("Facist")

\* The fifth Liberal policy has been enacted after at least three Fascist
\* ones, and the game has ended for the Liberals.
C32_Witness ==
    /\ liberal_policies = LiberalWin
    /\ facist_policies >= 3
    /\ turn_phase = Ended("Liberal")

\* veto by p is admissible: the phase is ChancellorSelect, the veto power is
\* unlocked and p is the president or the chancellor.
MayVeto(p) ==
    /\ turn_phase = ChancellorSelect
    /\ facist_policies >= VetoUnlock
    /\ Some(p) \in {president, chancellor}

\* The other party of the government has already consented.
OtherConsented(p) == IF Some(p) = chancellor THEN president_veto ELSE chancellor_veto

\* The state with the consent of p recorded and nothing else changed.
WithConsent(p) ==
    IF Some(p) = chancellor
    THEN [S EXCEPT !.chancellor_veto = TRUE]
    ELSE [S EXCEPT !.president_veto = TRUE]

\* C33 (veto preconditions): while the session is served, veto is rejected
\* with the state unchanged unless the phase is ChancellorSelect, at least 5
\* Fascist policies are enacted and the actor is the president or the
\* chancellor; the consent of one party alone is accepted and changes only
\* that party's flag, after which the chancellor can still enact; and both
\* flags are clear whenever ChancellorSelect is entered.
C33_VetoGuard ==
    /\ [](Alive =>
            \A p \in DOMAIN players : \A o \in veto(S, p) :
                IF ~MayVeto(p) THEN o.r = "Err" /\ o.s = S
                ELSE /\ o.r = "Ok"
                     /\ ~OtherConsented(p) =>
                            /\ o.s = WithConsent(p)
                            /\ \E color \in CardColor :
                                   \E x \in pick_card(o.s, chancellor[1], color) : x.r = "Ok")
    /\ [][(turn_phase # ChancellorSelect /\ turn_phase' = ChancellorSelect) =>
             (~president_veto' /\ ~chancellor_veto')]_vars

\* The president alone has consented to a veto and the government is
\* still choosing.
C33_Witness ==
    /\ turn_phase = ChancellorSelect
    /\ facist_policies >= VetoUnlock
    /\ president_veto
    /\ ~chancellor_veto
    /\ ret = "Ok"

\* C34 (notification): while the session is served, every game action a
\* roster member can send is answered, if it succeeds, by one view to each
\* player of the roster as the action leaves it and no alert, and if it is
\* rejected, by one alert to the actor and nothing to anybody else.
C34_Notified ==
    Alive =>
        \A pid \in DOMAIN players : \A out \in Dispatch(S, pid) :
            \A m \in Outbox(out, conn, pid) :
                /\ out.r = "Ok" => (m.views = DOMAIN out.s.players /\ m.alerts = {})
                /\ out.r = "Err" => (m.views = {} /\ m.alerts = {pid})
                /\ out.r \in {"Ok", "Err"}

====
